---------------------------- MODULE Spec2Model ----------------------------
(***************************************************************************)
(* Analytical contaminant transport: the two scripts                       *)
(*   src/2D_contaminant_plot.py  (scatter plot, "scatter")                  *)
(*   src/graph-final.py          (contour plot, "contour")                  *)
(* modelled as one state machine.  Init chooses the script that runs; the   *)
(* actions are the steps of its main(): parameter set-up, the grid sweep   *)
(* of get_data (one action per grid point), get_all_coord, the yes/no      *)
(* prompt, the point prompts with the lookup, and create_plot.             *)
(*                                                                         *)
(* Numbers.  The floats of the scripts are fixed-point integers here:      *)
(*   lengths in metres   : multiples of 10/381 m, so that ft / 0.3048 is   *)
(*                         exact (1 ft / 0.3048 = 125 units);              *)
(*   erf / erfc results  : multiples of 0.01;                              *)
(*   the spread product  : multiples of 0.0001 (a product of two of them); *)
(*   (s / 4) * value     : multiples of 1/40000 (the integer s * value);   *)
(*   concentrations      : multiples of 0.01 (what '0.2f' leaves).         *)
(* scipy's erf and erfc are library functions: a call returns some value   *)
(* of the function's range, chosen among the samples below.                *)
(***************************************************************************)
EXTENDS Integers, Sequences, FiniteSets

VARIABLES
    script,           \* which of the two scripts runs
    pc,               \* position in main()
    source_1,         \* main: Source(...)
    material_1,       \* main: Material(...)
    velocity_time,    \* main: ft_to_m(350)
    dist_x, dist_y,   \* get_data: the loop variables
    over_900, over_500, over_300, over_100,   \* get_data of the scatter script
    x_data, y_data, con_data, tri_data,       \* get_data of the contour script
    positive_y_data,  \* main: what get_data returned
    all_data,         \* main: what get_all_coord returned
    specific,         \* main: the upper-cased answer to the yes/no prompt
    user_x, user_y,   \* the point the user entered
    user_con,         \* the looked-up concentration: <<>> is None, <<c>> a value
    printed,          \* the printed point line: <<>> or <<x, y, concentration>>
    specific_point,   \* contour main: <<>> is None, <<x, y>> the point
    lookup_ret,       \* history: what get_specific_concentration found
    well_cons,        \* history: the <<dist_x, dist_y, well_con>> of get_data's calls
    stages,           \* history: the stages of main() in the order they ran
    cv_source, cv_value, cv_result   \* a single call of convert_to_volume

vars == <<script, pc, source_1, material_1, velocity_time, dist_x, dist_y,
          over_900, over_500, over_300, over_100,
          x_data, y_data, con_data, tri_data,
          positive_y_data, all_data, specific, user_x, user_y, user_con,
          printed, specific_point, lookup_ret, well_cons, stages,
          cv_source, cv_value, cv_result>>

(***************************************************************************)
(* Bounds.  The scripts sweep x over range(2, 450, 2) and y over           *)
(* range(0, 201) and accept user points with x <= 400 and |y| <= 200; the  *)
(* model keeps the shape (the sweep ends one past the largest user y, and  *)
(* beyond the largest user x) on a small grid.                             *)
(***************************************************************************)
UserXMax == 2
UserYMax == 1
\* the largest raw spread product (in 0.0001) a single call of
\* convert_to_volume is tried on
MaxValue == 12

XStop == UserXMax + 3
YStop == UserYMax + 1

\* units of length per metre, times ten (lengths are multiples of 10/381 m)
UnitsPerMetreTimes10 == 381
\* 0.01 as a multiple of 1/40000
Threshold == 400
\* one hundredth as a multiple of 1/40000
CentiUnit == 400

(***************************************************************************)
(* Set-up: the classes, the unit conversion                                *)
(***************************************************************************)
Source(width, concentration) == [width |-> width, concentration |-> concentration]

Material(dispersivity_x, dispersivity_y) == [ax |-> dispersivity_x, ay |-> dispersivity_y]

Well(distance_x, distance_y) == [dx |-> distance_x, dy |-> distance_y]

\* meters = ft / 0.3048
ft_to_m(ft) == (ft * UnitsPerMetreTimes10 * 1000) \div 3048

(***************************************************************************)
(* The library: special.erfc and special.erf.                              *)
(***************************************************************************)
ErfcSamples == {0, 20, 60, 100, 180}
ErfSamples == {-100, 100}

\* the radicand of a spread function's square root: the root is taken and
\* divided by, so the call succeeds only if it is positive
DomainOK(radicand) == radicand > 0

\* x_value = special.erfc((dist_x - vt) / (2 * ((ax * vt) ** (1 / 2))))
spread_x_positive(material, well, vel_time) ==
    IF DomainOK(material.ax * vel_time) THEN ErfcSamples ELSE {}

\* pos_y_value = special.erf((dist_y + (s_width / 2)) / (2 * ((disperse_y * dist_x) ** (1 / 2))))
spread_y_positive(source, material, well) ==
    IF DomainOK(material.ay * well.dx) THEN ErfSamples ELSE {}

\* neg_y_value = special.erf((dist_y - (s_width / 2)) / (2 * ((disperse_y * dist_x) ** (1 / 2))))
spread_y_negative(source, material, well) ==
    IF DomainOK(material.ay * well.dx) THEN ErfSamples ELSE {}

(***************************************************************************)
(* Converting spread to concentration by volume                            *)
(***************************************************************************)
\* what convert_to_volume returns: the int 0 or the string format() made
IntZero == [str |-> FALSE, whole |-> 0, frac |-> 0]

Str(whole, frac) == [str |-> TRUE, whole |-> whole, frac |-> frac]

\* format(concentration, '0.2f') for a positive concentration: the decimal
\* string of the nearest hundredth.  A value half way between two hundredths
\* is a float on one side or the other of the tie: either neighbour.
format_02f(concentration) ==
    LET q == concentration \div CentiUnit
        r == concentration % CentiUnit
        hundredths == IF 2 * r < CentiUnit THEN {q}
                      ELSE IF 2 * r > CentiUnit THEN {q + 1}
                      ELSE {q, q + 1}
    IN  {Str(h \div 100, h % 100) : h \in hundredths}

StrictlyUnderThreshold(concentration) == concentration < Threshold

\* the test of convert_to_volume: concentration <= 0.01
UnderThreshold(concentration) == concentration <= Threshold

\* convert_to_volume(source, value): the possible results
convert_to_volume(source, value) ==
    LET s == source.concentration
        concentration == s * value
    IN  IF UnderThreshold(concentration) THEN {IntZero}
        ELSE format_02f(concentration)

\* float(concentration), in hundredths
float(r) == IF r.str THEN r.whole * 100 + r.frac ELSE 0

\* calc_concentration(source, material, well, vel_time): the possible results;
\* none when a spread function fails
calc_concentration(source, material, well, vel_time) ==
    LET xs == spread_x_positive(material, well, vel_time)
        yps == spread_y_positive(source, material, well)
        yns == spread_y_negative(source, material, well)
        to_convert == {spread_x * (spread_y_pos - spread_y_neg) :
                          spread_x \in xs, spread_y_pos \in yps, spread_y_neg \in yns}
    IN  {float(r) : r \in UNION {convert_to_volume(source, v) : v \in to_convert}}

(***************************************************************************)
(* main(): the fixed parameters                                            *)
(***************************************************************************)
source_width == 200
source_concentration == 1000
material_dispersivity_x == 10
material_dispersivity_y == 6
travel_distance_ft == 350

(***************************************************************************)
(* get_data: the grid                                                      *)
(***************************************************************************)
GridXStartFromZero == 2 - 2

\* for dist_x in range(2, 450, 2): the first value
GridXStart == 2

XRange == {x \in GridXStart..(XStop - 1) : (x - GridXStart) % 2 = 0}

\* for dist_y in range(0, 201)
YRange == 0..(YStop - 1)

BucketStrictAt500(well_con) ==
    IF well_con >= 90000 THEN 1
    ELSE IF well_con > 50000 THEN 2
    ELSE IF well_con >= 30000 THEN 3
    ELSE IF well_con >= 10000 THEN 4
    ELSE 0

\* the scatter script's if / elif chain: the list a concentration goes to
\* (1 over_900, 2 over_500, 3 over_300, 4 over_100), 0 for none
Bucket(well_con) ==
    IF well_con >= 90000 THEN 1
    ELSE IF well_con >= 50000 THEN 2
    ELSE IF well_con >= 30000 THEN 3
    ELSE IF well_con >= 10000 THEN 4
    ELSE 0

AppendIf(list, cond, lst) == IF cond THEN Append(list, lst) ELSE list

(***************************************************************************)
(* reflect_over_y_axis / get_all_coord                                     *)
(***************************************************************************)
Scatter_NoNegation(d) ==
    d \o [i \in 1..Len(d) |-> <<d[i][1], d[i][2], d[i][3]>>]

\* scatter: new = [coord[0], -coord[1], coord[2]]; return d + use
Scatter_reflect_over_y_axis(d) ==
    d \o [i \in 1..Len(d) |-> <<d[i][1], -d[i][2], d[i][3]>>]

Scatter_get_all_coord(data) ==
    [i \in 1..Len(data) |-> Scatter_reflect_over_y_axis(data[i])]

\* contour: return x_data + x_data, y_data + inverted_y, z_data + z_data
Contour_reflect_over_y_axis(d) ==
    LET xs == d[1]
        ys == d[2]
        zs == d[3]
        inverted_y == [i \in 1..Len(ys) |-> -ys[i]]
    IN  <<xs \o xs, ys \o inverted_y, zs \o zs>>

Contour_get_all_coord(data) == Contour_reflect_over_y_axis(data)

(***************************************************************************)
(* Finding the user's concentration                                        *)
(***************************************************************************)
\* the numbers a list [dist_x, dist_y, well_con] holds, in hundredths (an int
\* and a float that are equal are the same element of a Python set)
Elements(lst) == {lst[1] * 100, lst[2] * 100, lst[3]}

Flatten(data) == data[1] \o data[2] \o data[3] \o data[4]

\* scatter: the first list, in the order of the loops, that
\* set([coord_x, coord_y]).issubset(lst) accepts; <<>> when the loops end
Scatter_get_specific_concentration(coord_x, coord_y, data) ==
    LET use_set == {coord_x * 100, coord_y * 100}
        flat == Flatten(data)
        hits == {i \in 1..Len(flat) : use_set \subseteq Elements(flat[i])}
    IN  IF hits = {} THEN <<>>
        ELSE <<flat[CHOOSE i \in hits : \A j \in hits : i <= j][3]>>

Abs(n) == IF n < 0 THEN -n ELSE n

MatchesNoAbs(ux, uy, pair) == ux = pair[1] /\ uy = pair[2]

\* contour: if user_x == pair[0] and abs(user_y) == pair[1]
Matches(ux, uy, pair) == ux = pair[1] /\ Abs(uy) = pair[2]

\* contour: user_con = 0, then the concentration of the last pair that matches
Contour_lookup(ux, uy, data) ==
    LET hits == {i \in 1..Len(data) : Matches(ux, uy, data[i])}
    IN  IF hits = {} THEN 0
        ELSE data[CHOOSE i \in hits : \A j \in hits : j <= i][3]

\* contour: if user_x % 2 == 0 and 2 <= user_x <= 400
XLow == 2

ValidX(n) == n % 2 = 0 /\ XLow <= n /\ n <= UserXMax

\* contour: if -200 <= user_y <= 200
ValidY(n) == -UserYMax <= n /\ n <= UserYMax

(***************************************************************************)
(* What the user types                                                     *)
(***************************************************************************)
\* a line of input for int(input(...)): <<n>> is the text of the integer n,
\* <<>> a text that is no integer
InputInts == (-(UserYMax + 1))..(UserXMax + 2)

InputTexts == {<<>>} \cup {<<n>> : n \in InputInts}

IsIntText(t) == t # <<>>

int(t) == t[1]

\* the answers to the yes/no prompt, as sequences of characters
AnswerTexts == {<<"y">>, <<"Y">>, <<"n">>, <<>>}

UpperChar(c) == IF c = "y" THEN "Y" ELSE IF c = "n" THEN "N" ELSE c

upper(text) == [i \in 1..Len(text) |-> UpperChar(text[i])]

\* 'Y' in specific
ContainsY(text) == \E i \in 1..Len(text) : text[i] = "Y"

(***************************************************************************)
(* The state machine                                                       *)
(***************************************************************************)
NoSource == Source(0, 0)
NoMaterial == Material(0, 0)

InitCommon ==
    /\ source_1 = NoSource
    /\ material_1 = NoMaterial
    /\ velocity_time = 0
    /\ dist_x = 0 /\ dist_y = 0
    /\ over_900 = <<>> /\ over_500 = <<>> /\ over_300 = <<>> /\ over_100 = <<>>
    /\ x_data = <<>> /\ y_data = <<>> /\ con_data = <<>> /\ tri_data = <<>>
    /\ positive_y_data = <<>>
    /\ all_data = <<>>
    /\ specific = <<>>
    /\ user_x = 0 /\ user_y = 0
    /\ user_con = <<>>
    /\ printed = <<>>
    /\ specific_point = <<>>
    /\ lookup_ret = <<>>
    /\ well_cons = {}
    /\ stages = <<>>

Init ==
    /\ script \in {"scatter", "contour"}
    /\ pc = "main"
    /\ InitCommon
    /\ cv_source = NoSource /\ cv_value = 0 /\ cv_result = <<>>

sweep_vars == <<dist_x, dist_y, over_900, over_500, over_300, over_100,
                x_data, y_data, con_data, tri_data, well_cons>>
param_vars == <<source_1, material_1, velocity_time>>
user_vars == <<specific, user_x, user_y, user_con, printed, specific_point, lookup_ret>>
cv_vars == <<cv_source, cv_value, cv_result>>

\* main: the parameters, source_1 and material_1
Main_Setup ==
    /\ pc = "main"
    /\ velocity_time' = ft_to_m(travel_distance_ft)
    /\ source_1' = Source(ft_to_m(source_width), source_concentration)
    /\ material_1' = Material(ft_to_m(material_dispersivity_x),
                              ft_to_m(material_dispersivity_y))
    /\ stages' = Append(stages, "setup")
    /\ pc' = "call_get_data"
    /\ UNCHANGED <<script, sweep_vars, positive_y_data, all_data, user_vars, cv_vars>>

\* get_data: the empty lists, the first grid point
GetData_Enter ==
    /\ pc = "call_get_data"
    /\ over_900' = <<>> /\ over_500' = <<>> /\ over_300' = <<>> /\ over_100' = <<>>
    /\ x_data' = <<>> /\ y_data' = <<>> /\ con_data' = <<>> /\ tri_data' = <<>>
    /\ dist_x' = GridXStart
    /\ dist_y' = 0
    /\ stages' = Append(stages, "sweep")
    /\ pc' = "get_data"
    /\ UNCHANGED <<script, param_vars, positive_y_data, all_data, user_vars,
                   well_cons, cv_vars>>

\* get_data: one pass of the inner loop
GetData_Step ==
    /\ pc = "get_data"
    /\ dist_x < XStop
    /\ LET well_1 == Well(ft_to_m(dist_x), ft_to_m(dist_y))
           cons == calc_concentration(source_1, material_1, well_1, velocity_time)
       IN  IF cons = {}
           THEN /\ pc' = "error"
                /\ UNCHANGED sweep_vars
           ELSE \E well_con \in cons :
                LET lst == <<dist_x, dist_y, well_con>>
                    b == Bucket(well_con)
                IN  /\ IF script = "scatter"
                       THEN /\ over_900' = AppendIf(over_900, b = 1, lst)
                            /\ over_500' = AppendIf(over_500, b = 2, lst)
                            /\ over_300' = AppendIf(over_300, b = 3, lst)
                            /\ over_100' = AppendIf(over_100, b = 4, lst)
                            /\ UNCHANGED <<x_data, y_data, con_data, tri_data>>
                       ELSE /\ x_data' = Append(x_data, dist_x)
                            /\ y_data' = Append(y_data, dist_y)
                            /\ con_data' = Append(con_data, well_con)
                            /\ tri_data' = Append(tri_data, lst)
                            /\ UNCHANGED <<over_900, over_500, over_300, over_100>>
                    /\ well_cons' = well_cons \cup {lst}
                    /\ IF dist_y + 1 < YStop
                       THEN dist_y' = dist_y + 1 /\ dist_x' = dist_x
                       ELSE dist_y' = 0 /\ dist_x' = dist_x + 2
                    /\ pc' = pc
    /\ UNCHANGED <<script, param_vars, positive_y_data, all_data, user_vars,
                   stages, cv_vars>>

\* get_data: return data
GetData_Return ==
    /\ pc = "get_data"
    /\ dist_x >= XStop
    /\ positive_y_data' =
          IF script = "scatter"
          THEN <<over_900, over_500, over_300, over_100>>
          ELSE <<(<<x_data, y_data, con_data>>), tri_data>>
    /\ pc' = "get_all_coord"
    /\ UNCHANGED <<script, param_vars, sweep_vars, all_data, user_vars, stages, cv_vars>>

\* main: all_data = get_all_coord(...)
GetAllCoord ==
    /\ pc = "get_all_coord"
    /\ all_data' = IF script = "scatter"
                   THEN Scatter_get_all_coord(positive_y_data)
                   ELSE Contour_get_all_coord(positive_y_data[1])
    /\ stages' = Append(stages, "mirror")
    /\ pc' = "prompt"
    /\ UNCHANGED <<script, param_vars, sweep_vars, positive_y_data, user_vars, cv_vars>>

\* where main goes after the yes/no prompt
AfterPrompt(answer) ==
    IF ContainsY(answer)
    THEN (IF script = "scatter" THEN "point" ELSE "ask_x")
    ELSE "create_plot"

PromptGuardEarly == pc \in {"prompt", "get_all_coord"}

PromptGuard == pc = "prompt"

\* main: specific = input(...).upper(); if 'Y' in specific
AskSpecific ==
    /\ PromptGuard
    /\ \E text \in AnswerTexts :
          /\ specific' = upper(text)
          /\ pc' = AfterPrompt(specific')
    /\ UNCHANGED <<script, param_vars, sweep_vars, positive_y_data, all_data,
                   user_x, user_y, user_con, printed, specific_point, lookup_ret,
                   stages, cv_vars>>

\* scatter main: the two int(input(...)), get_specific_concentration, the
\* replacement of None by 0 and the print
Scatter_Point ==
    /\ script = "scatter"
    /\ pc = "point"
    /\ \E tx \in InputTexts, ty \in InputTexts :
          IF ~IsIntText(tx)
          THEN /\ pc' = "ValueError"
               /\ UNCHANGED <<user_x, user_y, user_con, printed, lookup_ret>>
          ELSE IF ~IsIntText(ty)
          THEN /\ user_x' = int(tx)
               /\ pc' = "ValueError"
               /\ UNCHANGED <<user_y, user_con, printed, lookup_ret>>
          ELSE LET found == Scatter_get_specific_concentration(int(tx), int(ty), all_data)
               IN  /\ user_x' = int(tx)
                   /\ user_y' = int(ty)
                   /\ lookup_ret' = found
                   /\ user_con' = IF found = <<>> THEN <<0>> ELSE found
                   /\ printed' = <<user_x', user_y', user_con'[1]>>
                   /\ pc' = "create_plot"
    /\ UNCHANGED <<script, param_vars, sweep_vars, positive_y_data, all_data,
                   specific, specific_point, stages, cv_vars>>

\* contour get_specific_concentration: one pass of the first while loop
Contour_AskX ==
    /\ script = "contour"
    /\ pc = "ask_x"
    /\ \E t \in InputTexts :
          IF ~IsIntText(t)
          THEN pc' = "ValueError" /\ user_x' = user_x
          ELSE /\ user_x' = int(t)
               /\ pc' = IF ValidX(user_x') THEN "ask_y" ELSE "ask_x"
    /\ UNCHANGED <<script, param_vars, sweep_vars, positive_y_data, all_data,
                   specific, user_y, user_con, printed, specific_point, lookup_ret,
                   stages, cv_vars>>

\* contour get_specific_concentration: one pass of the second while loop
Contour_AskY ==
    /\ script = "contour"
    /\ pc = "ask_y"
    /\ \E t \in InputTexts :
          IF ~IsIntText(t)
          THEN pc' = "ValueError" /\ user_y' = user_y
          ELSE /\ user_y' = int(t)
               /\ pc' = IF ValidY(user_y') THEN "lookup" ELSE "ask_y"
    /\ UNCHANGED <<script, param_vars, sweep_vars, positive_y_data, all_data,
                   specific, user_x, user_con, printed, specific_point, lookup_ret,
                   stages, cv_vars>>

\* contour get_specific_concentration: the search of the triples, the print
\* and the return to main (specific_point)
Contour_Lookup ==
    /\ script = "contour"
    /\ pc = "lookup"
    /\ user_con' = <<Contour_lookup(user_x, user_y, positive_y_data[2])>>
    /\ lookup_ret' = user_con'
    /\ printed' = <<user_x, user_y, user_con'[1]>>
    /\ specific_point' = <<user_x, user_y>>
    /\ pc' = "create_plot"
    /\ UNCHANGED <<script, param_vars, sweep_vars, positive_y_data, all_data,
                   specific, user_x, user_y, stages, cv_vars>>

\* create_plot: reads the field.  The scatter script unpacks
\* x, y, con = zip(*amounts) for each of the four lists, which fails on an
\* empty list.
CreatePlot ==
    /\ pc = "create_plot"
    /\ pc' = IF script = "scatter" /\ \E i \in 1..Len(all_data) : all_data[i] = <<>>
             THEN "ValueError"
             ELSE "done"
    /\ UNCHANGED <<script, param_vars, sweep_vars, positive_y_data, all_data,
                   user_vars, stages, cv_vars>>

Next ==
    \/ Main_Setup
    \/ GetData_Enter
    \/ GetData_Step
    \/ GetData_Return
    \/ GetAllCoord
    \/ AskSpecific
    \/ Scatter_Point
    \/ Contour_AskX
    \/ Contour_AskY
    \/ Contour_Lookup
    \/ CreatePlot

Spec == Init /\ [][Next]_vars

(***************************************************************************)
(* A single call of convert_to_volume followed by float(), as in           *)
(* calc_concentration, on any source concentration and raw spread product  *)
(***************************************************************************)
ConvertSources == {0, 1, 4, 100, 250, 1000}

InitConvert ==
    /\ script = "scatter"
    /\ pc = "convert"
    /\ InitCommon
    /\ cv_source \in {Source(ft_to_m(source_width), s) : s \in ConvertSources}
    /\ cv_value \in (-MaxValue)..MaxValue
    /\ cv_result = <<>>

ConvertCall ==
    /\ pc = "convert"
    /\ \E r \in convert_to_volume(cv_source, cv_value) : cv_result' = <<float(r)>>
    /\ pc' = "converted"
    /\ UNCHANGED <<script, param_vars, sweep_vars, positive_y_data, all_data,
                   user_vars, stages, cv_source, cv_value>>

NextConvert == ConvertCall

SpecConvert == InitConvert /\ [][NextConvert]_vars

(***************************************************************************)
(* Notions the properties are stated in                                    *)
(***************************************************************************)
Full == <<"setup", "sweep", "mirror">>

IsPrefix(a, b) == Len(a) <= Len(b) /\ \A i \in 1..Len(a) : a[i] = b[i]

Range(list) == {list[i] : i \in 1..Len(list)}

\* the grid points of the sweep, and of the field after the mirror
Grid == XRange \X YRange

FullGrid == XRange \X ((-(YStop - 1))..(YStop - 1))

\* the samples <<x, y, concentration>> of the field all_data
FieldSamples ==
    IF all_data = <<>> THEN {}
    ELSE IF script = "scatter" THEN Range(Flatten(all_data))
    ELSE {<<all_data[1][i], all_data[2][i], all_data[3][i]>> : i \in 1..Len(all_data[1])}

Mirrored == Len(stages) = 3

\* the band of a concentration, from the labels of the plot: 1 is 900 and
\* above, 2 is [500, 900), 3 is [300, 500), 4 is [100, 300), 0 is below 100
BandOf(c) ==
    IF c >= 90000 THEN 1
    ELSE IF c >= 50000 /\ c < 90000 THEN 2
    ELSE IF c >= 30000 /\ c < 50000 THEN 3
    ELSE IF c >= 10000 /\ c < 30000 THEN 4
    ELSE 0

(***************************************************************************)
(* C1.  Scatter script: whenever get_specific_concentration returns a      *)
(* value, the value is the concentration of a stored sample whose first    *)
(* element is coord_x and whose second element is coord_y.                 *)
(***************************************************************************)
C1_LookupMatchesExactCoordinates ==
    (script = "scatter" /\ lookup_ret # <<>>) =>
        <<user_x, user_y, lookup_ret[1]>> \in FieldSamples

(***************************************************************************)
(* C2.  Scatter script: when the field holds no sample with exactly the    *)
(* requested coordinates, the concentration printed is 0.                  *)
(***************************************************************************)
C2_MissPrintsZero ==
    (script = "scatter" /\ printed # <<>>
        /\ ~ \E t \in FieldSamples : t[1] = printed[1] /\ t[2] = printed[2])
    => printed[3] = 0

(***************************************************************************)
(* C3.  Contour script: the concentration reported for a validated point   *)
(* (x, y) is the value calc_concentration returned for the grid point      *)
(* (x, |y|); exactly one stored triple matches, so the default 0 is never  *)
(* what is reported for want of a match.                                   *)
(***************************************************************************)
C3_LookupConsistency ==
    (script = "contour" /\ printed # <<>>) =>
        LET x == printed[1]
            y == printed[2]
            tri == positive_y_data[2]
        IN  /\ ValidX(x) /\ ValidY(y)
            /\ Cardinality({i \in 1..Len(tri) : tri[i][1] = x /\ tri[i][2] = Abs(y)}) = 1
            /\ Cardinality({t \in well_cons : t[1] = x /\ t[2] = Abs(y)}) = 1
            /\ <<x, Abs(y), printed[3]>> \in well_cons

C3_Witness ==
    /\ script = "contour"
    /\ printed # <<>>
    /\ printed[2] < 0
    /\ printed[3] > 0

(***************************************************************************)
(* C4.  Both scripts: after get_all_coord every sample (x, y, c) of the    *)
(* field has its mirror image (x, -y, c) in the field, and two samples at  *)
(* the same (x, y) carry the same concentration.                           *)
(***************************************************************************)
C4_FieldSymmetric ==
    Mirrored =>
        LET field == FieldSamples
        IN  /\ \A t \in field : <<t[1], -t[2], t[3]>> \in field
            \* no two samples share their coordinates and differ
            /\ Cardinality({<<t[1], t[2]>> : t \in field}) = Cardinality(field)

C4_Witness ==
    /\ Mirrored
    /\ \E t \in FieldSamples : t[2] < 0 /\ t[3] > 0
    /\ \E t \in FieldSamples, u \in FieldSamples : t[3] # u[3]

(***************************************************************************)
(* C5.  Both scripts: the field after get_data and get_all_coord holds a   *)
(* triple for every x of the sweep and every y between -(YStop - 1) and    *)
(* YStop - 1, whatever the concentration, and none outside.                *)
(***************************************************************************)
C5_FieldComplete ==
    Mirrored =>
        /\ \A p \in FullGrid : \E t \in FieldSamples : t[1] = p[1] /\ t[2] = p[2]
        /\ \A t \in FieldSamples : <<t[1], t[2]>> \in FullGrid

C7_LookupOnlyOnValidPoint ==
    (printed # <<>>) => (ValidX(printed[1]) /\ ValidY(printed[2]))

(***************************************************************************)
(* C8.  Both scripts: set-up, sweep and mirror run once each, in that      *)
(* order; the prompts and the lookup happen only after the mirror; and     *)
(* once the mirror is done the field is never changed again.               *)
(***************************************************************************)
C8_StageOrdering ==
    [][ /\ IsPrefix(stages', Full)
        /\ Len(stages') >= Len(stages)
        /\ (user_vars' # user_vars) => stages = Full
        /\ (stages = Full) =>
              /\ stages' = stages
              /\ all_data' = all_data
              /\ positive_y_data' = positive_y_data
              /\ sweep_vars' = sweep_vars ]_vars

C8_Witness ==
    /\ pc = "done"
    /\ printed # <<>>
    /\ stages = Full
    /\ FieldSamples # {}

C10_SweepStaysInDomain ==
    /\ pc # "error"
    /\ (pc = "get_data") =>
          /\ velocity_time > 0 /\ material_1.ax > 0 /\ material_1.ay > 0
          /\ material_1.ax * velocity_time > 0
          /\ (dist_x < XStop) =>
                /\ ft_to_m(dist_x) > 0
                /\ ft_to_m(dist_y) >= 0
                /\ material_1.ay * ft_to_m(dist_x) > 0
    /\ \A t \in well_cons :
          /\ ft_to_m(t[1]) > 0
          /\ ft_to_m(t[2]) >= 0
          /\ material_1.ay * ft_to_m(t[1]) > 0

C10_Witness ==
    /\ pc = "get_all_coord"
    /\ {<<t[1], t[2]>> : t \in well_cons} = Grid
    /\ Cardinality(well_cons) = Cardinality(Grid)

=============================================================================
